---- MODULE Spec2Model ----
(***************************************************************************)
(* Inventory synchronisation (agents/inventory_sync.py).                   *)
(*                                                                         *)
(* sync_product_inventory lists the store's products and, for each one,    *)
(* compares the enabled flag of every variant with the live catalog of the *)
(* product's print provider.  When a variant went out of stock it calls    *)
(* attempt_provider_failover, which walks the blueprint's providers in     *)
(* order and remaps the store variants onto the first provider whose       *)
(* catalog has a variant for every option set; otherwise the variants are  *)
(* enabled / disabled in place.                                            *)
(*                                                                         *)
(* The run is a sequential process.  It is modelled with one action per    *)
(* stretch of code between two calls of the API client; the answer of the  *)
(* client is the input of the action.  A dict is modelled by the set of    *)
(* its items (or a record), a list by a sequence, None by the value None.  *)
(***************************************************************************)
EXTENDS Integers, Sequences, FiniteSets, TLC

(***************************************************************************)
(* Bounds of the model.                                                    *)
(***************************************************************************)
MaxProducts == 2    \* products in the answer of get_all_products
MaxVariants == 2    \* variants of a store product
MaxProviders == 2   \* print providers listed by a blueprint
MaxCatalog == 2     \* variants in a catalog answer

(***************************************************************************)
(* Values.                                                                 *)
(***************************************************************************)
None == -1

\* ids are positive integers
ProviderIds == {1, 2, 3}
CurrentProviderIds == {1, 2}
BlueprintIds == {6}
CatalogVariantIds == 1..MaxCatalog
Prices == <<100, 250, 400, 550>>

\* option dicts, as their sets of (category, value) items
OptionMaps == { {},
                {<<"size", "S">>},
                {<<"size", "S">>, <<"color", "Black">>} }

\* Python's order of the strings used as option categories and values
StrOrder == <<"Black", "S", "color", "size">>

StrRank(s) == CHOOSE i \in 1..Len(StrOrder) : StrOrder[i] = s

\* (k1, v1) < (k2, v2) on tuples of strings
TupleLess(a, b) ==
    \/ StrRank(a[1]) < StrRank(b[1])
    \/ StrRank(a[1]) = StrRank(b[1]) /\ StrRank(a[2]) < StrRank(b[2])

RECURSIVE sorted(_)
sorted(items) ==
    IF items = {} THEN <<>>
    ELSE LET least == CHOOSE a \in items : \A b \in items \ {a} : TupleLess(a, b)
         IN  <<least>> \o sorted(items \ {least})

\* tuple(sorted(v['options'].items()))
options_tuple(v) == sorted(v.options)

(***************************************************************************)
(* The answers of the API client.                                          *)
(***************************************************************************)
\* The variants of a store product have ids of their own; the i-th one is
\* given the id i and the i-th price, so that every entry of a payload can
\* be told from the others.  Which ids are in stock is up to the live
\* catalog, any set of ids.
StoreVariants(i) ==
    [id : {i}, price : {Prices[i]}, is_enabled : BOOLEAN, options : OptionMaps]

StoreVariantLists ==
    UNION { { s \in [1..n -> UNION {StoreVariants(i) : i \in 1..n}] :
                \A i \in 1..n : s[i] \in StoreVariants(i) } : n \in 0..MaxVariants }

\* the fields of a store product other than its id
ProductBodies ==
    [blueprint_id : BlueprintIds, print_provider_id : CurrentProviderIds,
     variants : StoreVariantLists]

CatalogVariants == [id : CatalogVariantIds, options : OptionMaps]

\* a catalog lists each of its variant ids once
Catalogs ==
    UNION { { c \in [1..n -> CatalogVariants] :
                \A i, j \in 1..n : c[i].id = c[j].id => i = j } : n \in 0..MaxCatalog }

\* get_blueprint_variants: None, a dict without 'variants', or a catalog
NoAnswer == [present |-> FALSE, has_variants |-> FALSE, variants |-> <<>>]
NoVariantsKey == [present |-> TRUE, has_variants |-> FALSE, variants |-> <<>>]
CatalogAnswers ==
    {NoAnswer, NoVariantsKey} \cup
    { [present |-> TRUE, has_variants |-> TRUE, variants |-> c] : c \in Catalogs }

\* get_blueprint_details: None, or a blueprint with its print_providers
ProviderLists == UNION { [1..n -> [id : ProviderIds]] : n \in 0..MaxProviders }
NoBlueprint == [present |-> FALSE, print_providers |-> <<>>]
BlueprintAnswers ==
    {NoBlueprint} \cup { [present |-> TRUE, print_providers |-> l] : l \in ProviderLists }

\* get_all_products: None, a dict without 'data', or the list of products
ProductsAnswers ==
    { [present |-> FALSE, has_data |-> FALSE, count |-> 0],
      [present |-> TRUE, has_data |-> FALSE, count |-> 0] } \cup
    { [present |-> TRUE, has_data |-> TRUE, count |-> n] : n \in 0..MaxProducts }

NoProduct ==
    [id |-> 0, blueprint_id |-> 0, print_provider_id |-> 0, variants |-> <<>>]

(***************************************************************************)
(* Python truth values.                                                    *)
(***************************************************************************)
TruthyInt(x) == x # None /\ x # 0
TruthyList(l) == l # <<>>

(***************************************************************************)
(* sync_product_inventory, lines 90-112: the reconciliation of one product *)
(***************************************************************************)
available_ids(answer) == { answer.variants[i].id : i \in DOMAIN answer.variants }

out_of_stock(variant, available) ==
    variant.is_enabled /\ variant.id \notin available

restocked(variant, available) ==
    ~variant.is_enabled /\ variant.id \in available

\* variant of new_enabled_status: the elif of line 103 left out
new_enabled_status_without_restock(variant, available) ==
    IF out_of_stock(variant, available) THEN FALSE ELSE variant.is_enabled

new_enabled_status(variant, available) ==
    IF out_of_stock(variant, available) THEN FALSE
    ELSE IF restocked(variant, available) THEN TRUE
    ELSE variant.is_enabled

update_entry(variant, available) ==
    [id |-> variant.id, price |-> variant.price,
     is_enabled |-> new_enabled_status(variant, available)]

\* variant of build_variants_for_update: line 108 under the two branches
\* only, so that unchanged variants are left out of the list
build_variants_for_update_changed_only(store_variants, available) ==
    LET changed(v) == out_of_stock(v, available) \/ restocked(v, available)
        kept == SelectSeq(store_variants, changed)
    IN  [i \in DOMAIN kept |-> update_entry(kept[i], available)]

build_variants_for_update(store_variants, available) ==
    [i \in DOMAIN store_variants |-> update_entry(store_variants[i], available)]

\* variant of compute_requires_update: the test of line 114 left out
requires_update_always(store_variants, available) == TRUE

compute_requires_update(store_variants, available) ==
    \E i \in DOMAIN store_variants :
        \/ out_of_stock(store_variants[i], available)
        \/ restocked(store_variants[i], available)

\* variant of compute_failover_needed: line 100 also under the elif
failover_needed_on_any_change(store_variants, available) ==
    compute_requires_update(store_variants, available)

compute_failover_needed(store_variants, available) ==
    \E i \in DOMAIN store_variants : out_of_stock(store_variants[i], available)

(***************************************************************************)
(* attempt_provider_failover, lines 33-54: the match against one catalog   *)
(***************************************************************************)
\* the dict comprehension of line 33: a later variant replaces an earlier
\* one with the same key
new_variants_map(catalog) ==
    [k \in { options_tuple(catalog[i]) : i \in DOMAIN catalog } |->
        LET last == CHOOSE i \in DOMAIN catalog :
                        /\ options_tuple(catalog[i]) = k
                        /\ \A j \in DOMAIN catalog :
                               options_tuple(catalog[j]) = k => j <= i
        IN  catalog[last]]

\* variant of remap_entry: the remapped variant enabled on the new provider
remap_entry_enabled(matched_variant, store_variant) ==
    [id |-> matched_variant.id, price |-> store_variant.price, is_enabled |-> TRUE]

remap_entry(matched_variant, store_variant) ==
    [id |-> matched_variant.id, price |-> store_variant.price,
     is_enabled |-> store_variant.is_enabled]

\* variant of map_from: an unmatched store variant is passed over, lines
\* 48 and 50 left out
RECURSIVE map_from_skipping(_, _, _)
map_from_skipping(map, store_variants, i) ==
    IF i > Len(store_variants)
    THEN [all_variants_mapped |-> TRUE, new_variants_payload |-> <<>>]
    ELSE LET target_options_tuple == sorted(store_variants[i].options)
             rest == map_from_skipping(map, store_variants, i + 1)
         IN  IF target_options_tuple \in DOMAIN map
             THEN [all_variants_mapped |-> TRUE,
                   new_variants_payload |->
                       <<[id |-> map[target_options_tuple].id,
                          price |-> store_variants[i].price,
                          is_enabled |-> store_variants[i].is_enabled]>>
                           \o rest.new_variants_payload]
             ELSE rest

\* the loop of lines 37-50 from store variant i on; it stops at the first
\* variant without a match
RECURSIVE map_from(_, _, _)
map_from(map, store_variants, i) ==
    IF i > Len(store_variants)
    THEN [all_variants_mapped |-> TRUE, new_variants_payload |-> <<>>]
    ELSE LET target_options_tuple == options_tuple(store_variants[i])
         IN  IF target_options_tuple \in DOMAIN map
             THEN LET rest == map_from(map, store_variants, i + 1)
                  IN  [all_variants_mapped |-> rest.all_variants_mapped,
                       new_variants_payload |->
                           <<remap_entry(map[target_options_tuple], store_variants[i])>>
                               \o rest.new_variants_payload]
             ELSE [all_variants_mapped |-> FALSE, new_variants_payload |-> <<>>]

map_store_variants(catalog, store_variants) ==
    map_from(new_variants_map(catalog), store_variants, 1)

catalog_missing(answer) == ~answer.present \/ ~answer.has_variants

\* variant of is_current_provider: the test of line 23 left out
is_current_provider_never(new_provider_id, current_provider_id) == FALSE

is_current_provider(new_provider_id, current_provider_id) ==
    new_provider_id = current_provider_id

(***************************************************************************)
(* sync_product_inventory, lines 118-129: the choice of the payload        *)
(***************************************************************************)
switch_accepted(provider_id, variants) ==
    TruthyInt(provider_id) /\ TruthyList(variants)

switch_payload(provider_id, variants) ==
    [print_provider_id |-> provider_id, variants |-> variants]

variants_payload(variants) == [variants |-> variants]

\* variant of choose_payload: the disable list whatever the matcher returned
choose_payload_disable(provider_id, variants, for_update) ==
    variants_payload(for_update)

choose_payload(provider_id, variants, for_update) ==
    IF switch_accepted(provider_id, variants)
    THEN switch_payload(provider_id, variants)
    ELSE variants_payload(for_update)

(***************************************************************************)
(* The state of a run.                                                     *)
(***************************************************************************)
VARIABLES
    pc,                 \* where the run is
    store_products,     \* the ids of the listed products, in list order
    idx,                \* position of the for loop of line 76
    product,            \* the entry of the list under examination
    live_fetched,       \* line 86: the live catalog of the product was there
    available_catalog_variant_ids,
    variants_for_update,
    requires_update,
    potential_failover_needed,
    potential_providers, \* attempt_provider_failover: blueprint's providers
    prov_idx,           \* position of the for loop of line 21
    candidates,         \* what the loop of line 21 has seen so far
    new_catalog_variants_data, \* the catalog the returned provider was matched on
    new_provider_id,    \* what attempt_provider_failover returned
    new_variants,
    failover_returned,  \* attempt_provider_failover was called and returned
    final_payload,
    calls,              \* calls of the API client made for this product
    fetched,            \* products whose live catalog was requested, in order
    updated             \* products update_product was called for, in order

vars == <<pc, store_products, idx, product, live_fetched,
          available_catalog_variant_ids, variants_for_update, requires_update,
          potential_failover_needed, potential_providers, prov_idx, candidates,
          new_catalog_variants_data, new_provider_id, new_variants,
          failover_returned, final_payload, calls, fetched, updated>>

product_vars == <<product, live_fetched, available_catalog_variant_ids,
                  variants_for_update, requires_update, potential_failover_needed>>

matcher_vars == <<potential_providers, prov_idx, candidates,
                  new_catalog_variants_data, new_provider_id, new_variants,
                  failover_returned>>

run_vars == <<store_products, fetched>>

Init ==
    /\ pc = "start"
    /\ store_products = <<>>
    /\ idx = 1
    /\ product = NoProduct
    /\ live_fetched = FALSE
    /\ available_catalog_variant_ids = {}
    /\ variants_for_update = <<>>
    /\ requires_update = FALSE
    /\ potential_failover_needed = FALSE
    /\ potential_providers = <<>>
    /\ prov_idx = 1
    /\ candidates = <<>>
    /\ new_catalog_variants_data = NoAnswer
    /\ new_provider_id = None
    /\ new_variants = <<>>
    /\ failover_returned = FALSE
    /\ final_payload = <<>>
    /\ calls = <<>>
    /\ fetched = <<>>
    /\ updated = <<>>

Call(op, args) == [op |-> op, args |-> args]

(***************************************************************************)
(* Lines 65-74: the list of the store's products.  The list is read one    *)
(* entry at a time by the loop of line 76, so an entry's fields are drawn  *)
(* when the loop reaches it; store_products keeps the ids in list order.   *)
(***************************************************************************)
GetAllProducts ==
    /\ pc = "start"
    /\ \E answer \in ProductsAnswers :
        IF ~answer.present \/ ~answer.has_data
        THEN /\ pc' = "done"
             /\ store_products' = <<>>
        ELSE /\ pc' = "loop"
             /\ store_products' = [i \in 1..answer.count |-> i]
    /\ idx' = 1
    /\ UNCHANGED <<product_vars, matcher_vars, final_payload, calls, fetched, updated>>

(***************************************************************************)
(* Lines 76-83: the loop of line 76 takes the next entry of the list.  The *)
(* names assigned further down in the loop body, and the ones local to     *)
(* attempt_provider_failover, are not read again before they are assigned  *)
(* again: they start afresh here.                                          *)
(***************************************************************************)
NextProduct ==
    /\ pc = "loop"
    /\ idx <= Len(store_products)
    /\ \E body \in ProductBodies :
        product' = [id |-> store_products[idx],
                    blueprint_id |-> body.blueprint_id,
                    print_provider_id |-> body.print_provider_id,
                    variants |-> body.variants]
    /\ pc' = "live"
    /\ live_fetched' = FALSE
    /\ available_catalog_variant_ids' = {}
    /\ variants_for_update' = <<>>
    /\ requires_update' = FALSE
    /\ potential_failover_needed' = FALSE
    /\ potential_providers' = <<>>
    /\ prov_idx' = 1
    /\ candidates' = <<>>
    /\ new_catalog_variants_data' = NoAnswer
    /\ new_provider_id' = None
    /\ new_variants' = <<>>
    /\ failover_returned' = FALSE
    /\ final_payload' = <<>>
    /\ calls' = <<>>
    /\ UNCHANGED <<run_vars, idx, updated>>

(***************************************************************************)
(* Lines 84-129 up to the next call of the client: the live catalog of the *)
(* product's provider and the reconciliation of the product's variants.    *)
(***************************************************************************)
CheckStock ==
    /\ pc = "live"
    /\ calls' = Append(calls, Call("get_blueprint_variants",
                                   <<product.blueprint_id, product.print_provider_id>>))
    /\ fetched' = Append(fetched, product.id)
    /\ \E answer \in CatalogAnswers :
        LET available == available_ids(answer)
            needs == compute_requires_update(product.variants, available)
            failover == compute_failover_needed(product.variants, available)
            for_update == build_variants_for_update(product.variants, available)
        IN  IF catalog_missing(answer)
            THEN \* line 88
                 /\ idx' = idx + 1
                 /\ pc' = "loop"
                 /\ UNCHANGED <<live_fetched, available_catalog_variant_ids,
                                variants_for_update, requires_update,
                                potential_failover_needed, final_payload>>
            ELSE /\ live_fetched' = TRUE
                 /\ available_catalog_variant_ids' = available
                 /\ variants_for_update' = for_update
                 /\ requires_update' = needs
                 /\ potential_failover_needed' = failover
                 /\ IF ~needs
                    THEN \* line 116
                         /\ idx' = idx + 1
                         /\ pc' = "loop"
                         /\ UNCHANGED final_payload
                    ELSE IF failover
                    THEN \* line 120, into attempt_provider_failover
                         /\ idx' = idx
                         /\ pc' = "blueprint"
                         /\ UNCHANGED final_payload
                    ELSE \* line 128
                         /\ idx' = idx
                         /\ pc' = "update"
                         /\ final_payload' = variants_payload(for_update)
    /\ UNCHANGED <<product, store_products, matcher_vars, updated>>

(***************************************************************************)
(* attempt_provider_failover returns to lines 120-126.                     *)
(***************************************************************************)
ReturnFromFailover(provider_id, variants, catalog) ==
    /\ new_provider_id' = provider_id
    /\ new_variants' = variants
    /\ new_catalog_variants_data' = catalog
    /\ failover_returned' = TRUE
    /\ final_payload' = choose_payload(provider_id, variants, variants_for_update)
    /\ pc' = "update"

(***************************************************************************)
(* Lines 11-20: the blueprint's providers.                                 *)
(***************************************************************************)
GetBlueprintDetails ==
    /\ pc = "blueprint"
    /\ calls' = Append(calls, Call("get_blueprint_details", <<product.blueprint_id>>))
    /\ \E blueprint_data \in BlueprintAnswers :
        IF ~blueprint_data.present
        THEN /\ ReturnFromFailover(None, <<>>, NoAnswer)
             /\ UNCHANGED <<potential_providers, prov_idx, candidates>>
        ELSE /\ potential_providers' = blueprint_data.print_providers
             /\ prov_idx' = 1
             /\ pc' = "evaluate"
             /\ UNCHANGED <<candidates, new_catalog_variants_data, new_provider_id,
                            new_variants, failover_returned, final_payload>>
    /\ UNCHANGED <<product_vars, run_vars, idx, updated>>

(***************************************************************************)
(* Lines 21-54: one turn of the loop over the blueprint's providers.       *)
(* candidates records, for each provider seen, whether it was the current  *)
(* one, whether its catalog was there, and whether that catalog has a      *)
(* variant with the options of every store variant.                        *)
(***************************************************************************)
covers(answer, store_variants) ==
    /\ ~catalog_missing(answer)
    /\ \A i \in DOMAIN store_variants :
           \E j \in DOMAIN answer.variants :
               answer.variants[j].options = store_variants[i].options

EvaluateProvider ==
    /\ pc = "evaluate"
    /\ prov_idx <= Len(potential_providers)
    /\ LET provider == potential_providers[prov_idx]
       IN  IF is_current_provider(provider.id, product.print_provider_id)
           THEN \* line 24
                /\ candidates' = Append(candidates,
                       [id |-> provider.id, current |-> TRUE,
                        fetched |-> FALSE, covers |-> FALSE])
                /\ prov_idx' = prov_idx + 1
                /\ UNCHANGED <<calls, pc, new_catalog_variants_data, new_provider_id,
                               new_variants, failover_returned, final_payload>>
           ELSE \E answer \in CatalogAnswers :
                /\ calls' = Append(calls, Call("get_blueprint_variants",
                                               <<product.blueprint_id, provider.id>>))
                /\ candidates' = Append(candidates,
                       [id |-> provider.id, current |-> FALSE,
                        fetched |-> ~catalog_missing(answer),
                        covers |-> covers(answer, product.variants)])
                /\ IF catalog_missing(answer)
                   THEN \* line 31
                        /\ prov_idx' = prov_idx + 1
                        /\ UNCHANGED <<pc, new_catalog_variants_data, new_provider_id,
                                       new_variants, failover_returned, final_payload>>
                   ELSE LET m == map_store_variants(answer.variants, product.variants)
                        IN  IF m.all_variants_mapped
                            THEN \* line 54
                                 /\ ReturnFromFailover(provider.id,
                                        m.new_variants_payload, answer)
                                 /\ UNCHANGED prov_idx
                            ELSE /\ prov_idx' = prov_idx + 1
                                 /\ UNCHANGED <<pc, new_catalog_variants_data,
                                                new_provider_id, new_variants,
                                                failover_returned, final_payload>>
    /\ UNCHANGED <<product_vars, run_vars, potential_providers, idx, updated>>

(***************************************************************************)
(* Lines 56-57: no provider of the blueprint was suitable.                 *)
(***************************************************************************)
FailoverFailed ==
    /\ pc = "evaluate"
    /\ prov_idx > Len(potential_providers)
    /\ ReturnFromFailover(None, <<>>, NoAnswer)
    /\ UNCHANGED <<product_vars, run_vars, potential_providers, prov_idx, candidates,
                   idx, calls, updated>>

(***************************************************************************)
(* Lines 131-137: the update of the product, and on to the next product.   *)
(***************************************************************************)
\* variant of next_index: a product whose update failed is taken again
next_index_retry(i, response) == IF response THEN i + 1 ELSE i

\* the for loop of line 76 moves on whatever update_product answered
next_index(i, response) == i + 1

UpdateProduct ==
    /\ pc = "update"
    /\ \E response \in BOOLEAN :
        /\ calls' = Append(calls, Call("update_product", <<product.id, final_payload>>))
        /\ updated' = Append(updated, product.id)
        /\ idx' = next_index(idx, response)
    /\ pc' = "loop"
    /\ UNCHANGED <<product_vars, matcher_vars, run_vars, final_payload>>

(***************************************************************************)
(* The loop of line 76 is over.                                            *)
(***************************************************************************)
Finish ==
    /\ pc = "loop"
    /\ idx > Len(store_products)
    /\ pc' = "done"
    /\ UNCHANGED <<product_vars, matcher_vars, run_vars, idx, final_payload, calls,
                   updated>>

Next ==
    \/ GetAllProducts
    \/ NextProduct
    \/ CheckStock
    \/ GetBlueprintDetails
    \/ EvaluateProvider
    \/ FailoverFailed
    \/ UpdateProduct
    \/ Finish

Spec == Init /\ [][Next]_vars

\* the run is one sequential process: it takes its next step whenever it has one
FairSpec == Spec /\ WF_vars(Next)

(***************************************************************************)
(* What the properties below speak about.                                  *)
(***************************************************************************)
StoreVariantIndex == DOMAIN product.variants

IsOutOfStock(i) ==
    /\ product.variants[i].is_enabled = TRUE
    /\ product.variants[i].id \notin available_catalog_variant_ids

IsRestocked(i) ==
    /\ product.variants[i].is_enabled = FALSE
    /\ product.variants[i].id \in available_catalog_variant_ids

TargetFlag(i) ==
    IF IsOutOfStock(i) THEN FALSE
    ELSE IF IsRestocked(i) THEN TRUE
    ELSE product.variants[i].is_enabled

\* the disable / restore list: every variant, its id and price, its target flag
DisableRestoreList ==
    [i \in StoreVariantIndex |->
        [id |-> product.variants[i].id, price |-> product.variants[i].price,
         is_enabled |-> TargetFlag(i)]]

LiveFetchCall ==
    Call("get_blueprint_variants", <<product.blueprint_id, product.print_provider_id>>)

UpdateCalls == { k \in DOMAIN calls : calls[k].op = "update_product" }

MatcherCalls ==
    { k \in DOMAIN calls :
        \/ calls[k].op = "get_blueprint_details"
        \/ calls[k].op = "get_blueprint_variants" /\ calls[k] # LiveFetchCall }

IsSwitch(payload) == "print_provider_id" \in DOMAIN payload

\* catalog variant j of the catalog has the option pairs of store variant i
SameOptions(catalog, j, i) ==
    catalog.variants[j].options = product.variants[i].options

ProviderReturned == failover_returned /\ new_provider_id # None

\* the update of the product under examination has been decided or made
Decided == pc \in {"update", "loop", "done"}

(***************************************************************************)
(* C1.  Once the live catalog of a product was fetched, the target flag    *)
(* computed for each of its variants is: false if the variant is enabled   *)
(* and its id is not among the live ids, true if it is disabled and its id *)
(* is among them, and its current flag otherwise -- at every position of   *)
(* the variant list, whatever the other variants are.                      *)
(***************************************************************************)
C1_TargetFlags ==
    live_fetched =>
        /\ DOMAIN variants_for_update = StoreVariantIndex
        /\ \A i \in StoreVariantIndex :
            LET v == product.variants[i]
                target == variants_for_update[i].is_enabled
            IN  /\ (v.is_enabled /\ v.id \notin available_catalog_variant_ids)
                       => target = FALSE
                /\ (~v.is_enabled /\ v.id \in available_catalog_variant_ids)
                       => target = TRUE
                /\ (v.is_enabled /\ v.id \in available_catalog_variant_ids)
                       => target = TRUE
                /\ (~v.is_enabled /\ v.id \notin available_catalog_variant_ids)
                       => target = FALSE

C1_Witness ==
    /\ live_fetched
    /\ Len(product.variants) = 2
    /\ IsRestocked(1) /\ variants_for_update[1].is_enabled
    /\ IsOutOfStock(2) /\ ~variants_for_update[2].is_enabled

(***************************************************************************)
(* C2.  For a product none of whose variants is newly out of stock or      *)
(* restocked, the only call made is the fetch of the live catalog: no      *)
(* get_blueprint_details, no get_blueprint_variants for another provider,  *)
(* no update_product.                                                      *)
(***************************************************************************)
C2_NoChangeNoCalls ==
    (live_fetched /\ \A i \in StoreVariantIndex : ~IsOutOfStock(i) /\ ~IsRestocked(i))
        => /\ calls = <<LiveFetchCall>>
           /\ pc \in {"loop", "done"}
           /\ ~failover_returned
           /\ \A k \in DOMAIN updated : updated[k] # product.id

C2_Witness ==
    /\ live_fetched
    /\ Len(product.variants) = 2
    /\ product.variants[1].is_enabled /\ ~product.variants[2].is_enabled
    /\ \A i \in StoreVariantIndex : ~IsOutOfStock(i) /\ ~IsRestocked(i)
    /\ pc = "done"

(***************************************************************************)
(* C3.  All or nothing: a payload with a print_provider_id, as decided and *)
(* as passed to update_product, lists one entry per store variant, in      *)
(* store order, whose id is the id of a variant of that provider's catalog *)
(* with the same option pairs as the store variant; and a provider whose   *)
(* catalog lacks such a variant for some store variant is not returned by  *)
(* attempt_provider_failover.                                              *)
(***************************************************************************)
FullyRemapped(payload) ==
    /\ DOMAIN payload.variants = StoreVariantIndex
    /\ \A i \in StoreVariantIndex :
        \E j \in DOMAIN new_catalog_variants_data.variants :
            /\ new_catalog_variants_data.variants[j].id = payload.variants[i].id
            /\ SameOptions(new_catalog_variants_data, j, i)

C3_AllOrNothing ==
    /\ IsSwitch(final_payload) =>
           /\ FullyRemapped(final_payload)
           /\ final_payload.print_provider_id = candidates[Len(candidates)].id
    /\ \A k \in UpdateCalls :
           IsSwitch(calls[k].args[2]) =>
               /\ calls[k].args[2] = final_payload
               /\ FullyRemapped(calls[k].args[2])
    /\ ProviderReturned =>
           /\ new_provider_id = candidates[Len(candidates)].id
           /\ \A i \in StoreVariantIndex :
                  \E j \in DOMAIN new_catalog_variants_data.variants :
                      SameOptions(new_catalog_variants_data, j, i)

C3_Witness ==
    /\ UpdateCalls # {}
    /\ IsSwitch(final_payload)
    /\ Len(product.variants) = 2
    /\ product.variants[1].options # product.variants[2].options
    /\ final_payload.variants[1].id = 2
    /\ final_payload.variants[2].id = 1
    /\ Len(candidates) = 2 /\ candidates[1].fetched /\ ~candidates[1].covers

(***************************************************************************)
(* C4.  First fit: the provider attempt_provider_failover returns is the   *)
(* earliest of the blueprint's print_providers, the current provider       *)
(* excluded, whose fetched catalog has a match for every store variant;    *)
(* the current provider is never returned.                                 *)
(***************************************************************************)
C4_FirstFit ==
    ProviderReturned =>
        LET k == Len(candidates)
        IN  /\ k \in DOMAIN potential_providers
            /\ \A j \in 1..k : candidates[j].id = potential_providers[j].id
            /\ new_provider_id = potential_providers[k].id
            /\ new_provider_id # product.print_provider_id
            /\ candidates[k].covers
            /\ \A j \in 1..(k - 1) :
                \/ potential_providers[j].id = product.print_provider_id
                \/ ~candidates[j].current /\ ~candidates[j].covers

C4_Witness ==
    /\ ProviderReturned
    /\ Len(potential_providers) = 2
    /\ Len(candidates) = 1
    /\ potential_providers[1].id # potential_providers[2].id
    /\ potential_providers[2].id # product.print_provider_id
    /\ Len(product.variants) = 2

C4_WitnessSecond ==
    /\ ProviderReturned
    /\ Len(candidates) = 2
    /\ candidates[1].fetched /\ ~candidates[1].covers

(***************************************************************************)
(* C5.  Failover takes precedence: for a product with a variant newly out  *)
(* of stock, if a provider of the blueprint other than the current one has *)
(* a catalog matching every store variant, the payload decided and passed  *)
(* to update_product is the provider switch (that provider and the         *)
(* remapped variants), not the disable list, also when another variant of  *)
(* the product was restocked.                                              *)
(***************************************************************************)
SomeCandidateCovers ==
    \E j \in DOMAIN candidates :
        /\ potential_providers[j].id # product.print_provider_id
        /\ candidates[j].covers

C5_FailoverPrecedence ==
    (Decided /\ live_fetched /\ (\E i \in StoreVariantIndex : IsOutOfStock(i))
        /\ SomeCandidateCovers)
        => /\ IsSwitch(final_payload)
           /\ final_payload.print_provider_id = candidates[Len(candidates)].id
           /\ final_payload.print_provider_id # product.print_provider_id
           /\ final_payload.variants = new_variants
           /\ pc # "update" =>
                  /\ Cardinality(UpdateCalls) = 1
                  /\ \A k \in UpdateCalls : calls[k].args = <<product.id, final_payload>>

C5_Witness ==
    /\ pc = "loop"
    /\ Len(product.variants) = 2
    /\ IsOutOfStock(1) /\ IsRestocked(2)
    /\ SomeCandidateCovers
    /\ IsSwitch(calls[Len(calls)].args[2])

(***************************************************************************)
(* C6.  In the list attempt_provider_failover returns, entry i has the     *)
(* price and the is_enabled flag store variant i had before the            *)
(* reconciliation, not its target flag; nothing but the id differs.        *)
(***************************************************************************)
C6_RemapKeepsPriceAndFlag ==
    ProviderReturned =>
        /\ DOMAIN new_variants = StoreVariantIndex
        /\ \A i \in StoreVariantIndex :
            /\ DOMAIN new_variants[i] = {"id", "price", "is_enabled"}
            /\ new_variants[i].price = product.variants[i].price
            /\ new_variants[i].is_enabled = product.variants[i].is_enabled
        /\ IsSwitch(final_payload) => final_payload.variants = new_variants

C6_Witness ==
    /\ ProviderReturned
    /\ IsSwitch(final_payload)
    /\ Len(product.variants) = 2
    /\ IsOutOfStock(1) /\ final_payload.variants[1].is_enabled
    /\ IsRestocked(2) /\ ~final_payload.variants[2].is_enabled
    /\ final_payload.variants[1].id # product.variants[1].id

(***************************************************************************)
(* C7.  Restock only: for a product with a restocked variant and none      *)
(* newly out of stock, attempt_provider_failover is not called, and one    *)
(* update_product call is made, whose payload has no print_provider_id and *)
(* lists every variant with its id and price, is_enabled true for the      *)
(* restocked ones and the unchanged flag for the others.                   *)
(***************************************************************************)
RestockOnly ==
    /\ live_fetched
    /\ \E i \in StoreVariantIndex : IsRestocked(i)
    /\ \A i \in StoreVariantIndex : ~IsOutOfStock(i)

RestockList ==
    [i \in StoreVariantIndex |->
        [id |-> product.variants[i].id, price |-> product.variants[i].price,
         is_enabled |-> IF IsRestocked(i) THEN TRUE ELSE product.variants[i].is_enabled]]

C7_RestockOnly ==
    RestockOnly =>
        /\ Decided
        /\ ~failover_returned
        /\ MatcherCalls = {}
        /\ final_payload = [variants |-> RestockList]
        /\ pc = "update" => calls = <<LiveFetchCall>>
        /\ pc # "update" =>
               calls = <<LiveFetchCall,
                         Call("update_product", <<product.id, [variants |-> RestockList]>>)>>

C7_Witness ==
    /\ RestockOnly
    /\ pc = "loop"
    /\ Len(product.variants) = 2
    /\ IsRestocked(2)
    /\ product.variants[1].is_enabled

(***************************************************************************)
(* C8.  Disable-only fallback: for a product with a variant newly out of   *)
(* stock, when the blueprint details are absent, or no provider other than *)
(* the current one is listed, or every other provider's catalog is absent  *)
(* or lacks a match for some store variant, attempt_provider_failover      *)
(* returns (None, None), and the payload decided and passed to             *)
(* update_product has no print_provider_id and lists every store variant   *)
(* with its id, its price and its target flag.                             *)
(***************************************************************************)
MatcherFailed ==
    /\ failover_returned
    /\ \A j \in DOMAIN candidates :
        \/ potential_providers[j].id = product.print_provider_id
        \/ ~candidates[j].fetched
        \/ ~candidates[j].covers

C8_DisableOnlyFallback ==
    /\ (pc \in {"blueprint", "evaluate"}) =>
           /\ \E i \in StoreVariantIndex : IsOutOfStock(i)
           /\ ~failover_returned
    /\ MatcherFailed =>
           /\ \E i \in StoreVariantIndex : IsOutOfStock(i)
           /\ new_provider_id = None
           /\ new_variants = <<>>
           /\ Decided
           /\ final_payload = [variants |-> DisableRestoreList]
           /\ \A k \in UpdateCalls :
                  calls[k].args = <<product.id, [variants |-> DisableRestoreList]>>
           /\ pc # "update" => Cardinality(UpdateCalls) = 1

C8_Witness ==
    /\ MatcherFailed
    /\ pc = "loop"
    /\ Len(product.variants) = 2
    /\ IsOutOfStock(1) /\ IsRestocked(2)
    /\ Len(candidates) = 2
    /\ ~candidates[1].fetched /\ ~candidates[1].current
    /\ candidates[2].fetched /\ ~candidates[2].covers

C8_WitnessNoBlueprint ==
    /\ MatcherFailed
    /\ pc = "update"
    /\ calls[Len(calls)].op = "get_blueprint_details"
    /\ candidates = <<>> /\ potential_providers = <<>>

(***************************************************************************)
(* C9.  A store variant with an empty option mapping matches no variant of *)
(* any candidate catalog, so no provider is returned when the store        *)
(* variant list has such a variant.                                        *)
(***************************************************************************)
C9_EmptyOptionsNeverMatch ==
    (failover_returned /\ \E i \in StoreVariantIndex : product.variants[i].options = {})
        => new_provider_id = None

(***************************************************************************)
(* C10.  Failures never abort the batch: once the products are listed, the *)
(* live catalog of every product of the list is requested, in list order,  *)
(* whatever happened to the products before it; no product gets more than  *)
(* one update_product call, and the run terminates.                        *)
(***************************************************************************)
IsPrefix(s, t) == Len(s) <= Len(t) /\ \A i \in DOMAIN s : s[i] = t[i]

AtMostOneUpdateEach ==
    \A j, k \in DOMAIN updated : updated[j] = updated[k] => j = k

C10_BatchNeverAborted ==
    /\ [](IsPrefix(fetched, store_products) /\ AtMostOneUpdateEach)
    /\ <>(pc = "done" /\ fetched = store_products)

C10_Witness ==
    /\ pc = "done"
    /\ Len(store_products) = 2
    /\ fetched = <<1, 2>>
    /\ updated = <<1>>
    /\ ~live_fetched

====
